---------------------------- MODULE Spec2Model ----------------------------
(***************************************************************************)
(* SurgeDB: one collection behind the HTTP handlers of surgedb-server.     *)
(*                                                                         *)
(* The handlers (insert_vector, upsert_vector, delete_vector, get_vector,  *)
(* list_vectors, search_vector, get_stats) are modelled from               *)
(* crates/surgedb-server/src/main.rs.  The core they call (Collection,     *)
(* vector store, HNSW index, filter evaluator) lives in surgedb-core,      *)
(* whose only available file is error.rs; it is modelled from the design   *)
(* document (sections 4.1 - 4.6).                                          *)
(*                                                                         *)
(* Conventions: Option<T> is a sequence of length <= 1 (None == <<>>);     *)
(* f32 coordinates are small naturals and the metric is squared Euclidean  *)
(* (section 4.1 allows the square); ties between equal distances are       *)
(* broken by the smaller InternalIndex (section 4.1: deterministic).       *)
(***************************************************************************)
EXTENDS Integers, Sequences, FiniteSets, TLC

VARIABLES db, last, registry, arena, tasks, config

vars == <<db, last, registry, arena, tasks, config>>

\* what the handlers of the sequential model leave alone: the state of the
\* concurrent model (the name -> Arc<Collection> map, the collections the
\* Arcs own, the requests in flight, one per worker) and AppState.config
conc == <<registry, arena, tasks, config>>

---------------------------------------------------------------------------
(* Bounds of the model *)

NumIds == 2

MaxLayer == 1

MaxCoord == 2

MaxK == 2

---------------------------------------------------------------------------
(* Option values *)

None == <<>>

Some(x) == <<x>>

IsSome(o) == o # <<>>

Unwrap(o) == o[1]

Max(a, b) == IF a >= b THEN a ELSE b

Min(a, b) == IF a <= b THEN a ELSE b

---------------------------------------------------------------------------
(* Inputs *)

\* vector ids, as the fuzz targets form them: format!("vec_{}", id)
Ids == 1..NumIds

\* Config.dimensions of the collection
Dimensions == 1

\* vectors of the configured dimension
ValidVectors == [1..Dimensions -> 0..MaxCoord]

\* vectors of another length
WrongVectors == {<<>>, <<0, 0>>}

Vectors == ValidVectors \cup WrongVectors

\* serde_json::Value: a string or a number
String(s) == [string |-> s]

Number(n) == [number |-> n]

IsNumber(v) == DOMAIN v = {"number"}

\* Option<serde_json::Value>: no metadata, or an object with one key
Metadatas == {None, Some([type |-> String("doc")])}

\* the random top layer drawn for a new node
Layers == 0..MaxLayer

\* query vectors and k of a search request
Queries == ValidVectors

Ks == 1..MaxK

\* collection names
Names == {"c"}

---------------------------------------------------------------------------
(* HNSW knobs of Config (defaults) *)

DefaultM == 16

DefaultMMax0 == 2 * DefaultM

DefaultEfConstruction == 200

DefaultEfSearch == 50

DefaultConfig ==
    [dimensions |-> Dimensions, m |-> DefaultM, m_max0 |-> DefaultMMax0,
     ef_construction |-> DefaultEfConstruction,
     ef_search_default |-> DefaultEfSearch]

---------------------------------------------------------------------------
(* Error values (error.rs) and their Display strings *)

DimensionMismatch(expected, got) ==
    [kind |-> "DimensionMismatch", detail |-> <<expected, got>>]

DuplicateId(id) == [kind |-> "DuplicateId", detail |-> <<id>>]

EmptyIndex == [kind |-> "EmptyIndex", detail |-> <<>>]

CollectionNotFound(name) == [kind |-> "CollectionNotFound", detail |-> <<name>>]

DuplicateCollection(name) == [kind |-> "DuplicateCollection", detail |-> <<name>>]

VectorNotFound(id) == [kind |-> "VectorNotFound", detail |-> <<id>>]

InvalidConfig(msg) == [kind |-> "InvalidConfig", detail |-> <<msg>>]

Storage(msg) == [kind |-> "Storage", detail |-> <<msg>>]

Io(msg) == [kind |-> "Io", detail |-> <<msg>>]

\* to_string with the two fields of DimensionMismatch exchanged in the format
to_string_swapped(e) ==
    CASE e.kind = "DimensionMismatch" ->
             <<"Dimension mismatch: expected ", e.detail[2], ", got ", e.detail[1]>>
      [] e.kind = "DuplicateId" -> <<"Duplicate vector ID: ", e.detail[1]>>
      [] e.kind = "EmptyIndex" -> <<"Index is empty, cannot search">>
      [] e.kind = "CollectionNotFound" -> <<"Collection not found: ", e.detail[1]>>
      [] e.kind = "DuplicateCollection" -> <<"Duplicate collection: ", e.detail[1]>>
      [] e.kind = "VectorNotFound" -> <<"Vector not found: ", e.detail[1]>>
      [] e.kind = "InvalidConfig" -> <<"Invalid configuration: ", e.detail[1]>>
      [] e.kind = "Storage" -> <<"Storage error: ", e.detail[1]>>
      [] e.kind = "Io" -> <<"IO error: ", e.detail[1]>>

\* e.to_string(): the #[error("...")] format of each variant
to_string(e) ==
    CASE e.kind = "DimensionMismatch" ->
             <<"Dimension mismatch: expected ", e.detail[1], ", got ", e.detail[2]>>
      [] e.kind = "DuplicateId" -> <<"Duplicate vector ID: ", e.detail[1]>>
      [] e.kind = "EmptyIndex" -> <<"Index is empty, cannot search">>
      [] e.kind = "CollectionNotFound" -> <<"Collection not found: ", e.detail[1]>>
      [] e.kind = "DuplicateCollection" -> <<"Duplicate collection: ", e.detail[1]>>
      [] e.kind = "VectorNotFound" -> <<"Vector not found: ", e.detail[1]>>
      [] e.kind = "InvalidConfig" -> <<"Invalid configuration: ", e.detail[1]>>
      [] e.kind = "Storage" -> <<"Storage error: ", e.detail[1]>>
      [] e.kind = "Io" -> <<"IO error: ", e.detail[1]>>

Ok(v) == [ok |-> TRUE, val |-> v]

Err(e) == [ok |-> FALSE, err |-> e]

---------------------------------------------------------------------------
(* 4.1 Metric kernel: squared Euclidean distance *)

RECURSIVE SumSq(_, _, _)
SumSq(a, b, n) ==
    IF n = 0 THEN 0
    ELSE (a[n] - b[n]) * (a[n] - b[n]) + SumSq(a, b, n - 1)

distance(a, b) == SumSq(a, b, Len(a))

---------------------------------------------------------------------------
(* 4.4 Filter evaluator *)

Eq(path, value) == [op |-> "Eq", path |-> path, value |-> value]

In(path, values) == [op |-> "In", path |-> path, values |-> values]

\* Range(path, {gt?, gte?, lt?, lte?})
Range(path, bounds) == [op |-> "Range", path |-> path, bounds |-> bounds]

Exists(path) == [op |-> "Exists", path |-> path]

Not(f) == [op |-> "Not", arg |-> f]

And(fs) == [op |-> "And", args |-> fs]

Or(fs) == [op |-> "Or", args |-> fs]

\* the value at a path of a metadata document: None when the path is missing
Lookup(md, path) ==
    IF IsSome(md) /\ path \in DOMAIN Unwrap(md) THEN Some(Unwrap(md)[path]) ELSE None

\* the bounds of a range that are present hold of the number n
within(n, b) ==
    /\ IsSome(b.gt) => n > Unwrap(b.gt)
    /\ IsSome(b.gte) => n >= Unwrap(b.gte)
    /\ IsSome(b.lt) => n < Unwrap(b.lt)
    /\ IsSome(b.lte) => n <= Unwrap(b.lte)

\* a range test that lets every value that is not a number pass
in_range_any_type(v, b) ==
    IF IsSome(v) /\ IsNumber(Unwrap(v)) THEN within(Unwrap(v).number, b) ELSE IsSome(v)

\* Range on the value at a path: false when the path is missing or the value
\* is not a number
in_range(v, b) ==
    IsSome(v) /\ IsNumber(Unwrap(v)) /\ within(Unwrap(v).number, b)

RECURSIVE matches(_, _)
matches(f, md) ==
    CASE f.op = "Eq" -> Lookup(md, f.path) = Some(f.value)
      [] f.op = "In" -> \E i \in DOMAIN f.values : Lookup(md, f.path) = Some(f.values[i])
      [] f.op = "Range" -> in_range(Lookup(md, f.path), f.bounds)
      [] f.op = "Exists" -> IsSome(Lookup(md, f.path))
      [] f.op = "Not" -> ~matches(f.arg, md)
      [] f.op = "And" -> \A i \in DOMAIN f.args : matches(f.args[i], md)
      [] f.op = "Or" -> \E i \in DOMAIN f.args : matches(f.args[i], md)

\* Option<Filter>: no filter admits every node
admits(filter, md) == filter = None \/ matches(Unwrap(filter), md)

\* the filters a search request carries
Filters ==
    {None, Some(Eq("type", String("doc"))), Some(Not(Exists("type")))}

---------------------------------------------------------------------------
(* 4.3 Vector store: records indexed by InternalIndex, and the free list *)

Slots(c) == DOMAIN c.records

Vec(c, i) == c.records[i].vector

Meta(c, i) == c.records[i].metadata

Tombstoned(c, i) == c.records[i].tombstone

LiveSlots(c) == {i \in Slots(c) : ~Tombstoned(c, i)}

\* f extended (or overwritten) at key k
Put(f, k, v) == [x \in DOMAIN f \cup {k} |-> IF x = k THEN v ELSE f[x]]

\* f without key k
Drop(f, k) == [x \in DOMAIN f \ {k} |-> f[x]]

\* append(id, vector, metadata) -> InternalIndex: pops a free slot if any,
\* else grows the arrays
append(c, id, v, md) ==
    IF Len(v) # c.cfg.dimensions
    THEN Err(DimensionMismatch(c.cfg.dimensions, Len(v)))
    ELSE LET rec == [id |-> id, vector |-> v, metadata |-> md, tombstone |-> FALSE]
             n == Len(c.free)
             i == IF n > 0 THEN c.free[n] ELSE Cardinality(Slots(c))
         IN  Ok([coll |-> [c EXCEPT !.records = Put(@, i, rec),
                                    !.free = IF n > 0 THEN SubSeq(@, 1, n - 1) ELSE @,
                                    !.vector_count = @ + 1],
                 index |-> i])

\* tombstone that marks the record but does not push i to the free list
tombstone_unlisted(c, i) ==
    [c EXCEPT !.records[i].tombstone = TRUE,
              !.vector_count = @ - 1]

\* tombstone(i): marks record i as deleted and pushes i to the free list
tombstone(c, i) ==
    [c EXCEPT !.records[i].tombstone = TRUE,
              !.free = Append(@, i),
              !.vector_count = @ - 1]

---------------------------------------------------------------------------
(* 4.5 HNSW index *)

\* neighbors(i, l): empty when i has no node or does not reach layer l
neighbors(c, i, l) ==
    IF i \in DOMAIN c.nodes /\ l \in DOMAIN c.nodes[i].nbrs
    THEN c.nodes[i].nbrs[l] ELSE {}

\* a is strictly better than b for query q (ties: smaller index first)
Closer(c, q, a, b) ==
    \/ distance(q, Vec(c, a)) < distance(q, Vec(c, b))
    \/ distance(q, Vec(c, a)) = distance(q, Vec(c, b)) /\ a < b

\* top of the min-heap / of the max-heap over a set of indices
Best(c, q, S) == CHOOSE a \in S : \A b \in S \ {a} : Closer(c, q, a, b)

Worst(c, q, S) == CHOOSE a \in S : \A b \in S \ {a} : Closer(c, q, b, a)

RECURSIVE SortAsc(_, _, _)
SortAsc(c, q, S) ==
    IF S = {} THEN <<>>
    ELSE LET b == Best(c, q, S) IN <<b>> \o SortAsc(c, q, S \ {b})

\* trim results to ef
Trim(c, q, S, ef) ==
    IF Cardinality(S) > ef THEN S \ {Worst(c, q, S)} ELSE S

\* the inner loop of the beam search over the neighbors ns of one candidate
RECURSIVE Expand(_, _, _, _, _, _)
Expand(c, q, ef, filter, ns, st) ==
    IF ns = <<>> THEN st
    ELSE LET n == Head(ns)
         IN  IF n \in st.visited \/ Tombstoned(c, n)
             THEN Expand(c, q, ef, filter, Tail(ns), st)
             ELSE LET seen == [st EXCEPT !.visited = @ \cup {n}]
                      better ==
                          \/ Cardinality(st.results) < ef
                          \/ distance(q, Vec(c, n))
                               < distance(q, Vec(c, Worst(c, q, st.results)))
                  IN  IF better
                      THEN Expand(c, q, ef, filter, Tail(ns),
                               [seen EXCEPT
                                  !.candidates = @ \cup {n},
                                  !.results =
                                      IF admits(filter, Meta(c, n))
                                      THEN Trim(c, q, @ \cup {n}, ef) ELSE @])
                      ELSE Expand(c, q, ef, filter, Tail(ns), seen)

RECURSIVE BeamLoop(_, _, _, _, _, _)
BeamLoop(c, q, l, ef, filter, st) ==
    IF st.candidates = {} THEN st.results
    ELSE LET b == Best(c, q, st.candidates)
         IN  IF /\ Cardinality(st.results) = ef
                /\ distance(q, Vec(c, b))
                     > distance(q, Vec(c, Worst(c, q, st.results)))
             THEN st.results
             ELSE BeamLoop(c, q, l, ef, filter,
                      Expand(c, q, ef, filter, SortAsc(c, q, neighbors(c, b, l)),
                             [st EXCEPT !.candidates = @ \ {b}]))

\* beam search at layer l from ep_list; with a filter, non-matching nodes are
\* expanded but not admitted to the results
search_layer(c, q, ep_list, ef, l, filter) ==
    BeamLoop(c, q, l, ef, filter,
             [candidates |-> ep_list,
              results |-> {e \in ep_list : admits(filter, Meta(c, e))},
              visited |-> ep_list])

\* greedy search at layer l: follow the best neighbor until no improvement
RECURSIVE greedy(_, _, _, _)
greedy(c, q, cur, l) ==
    LET ns == {n \in neighbors(c, cur, l) : ~Tombstoned(c, n)}
    IN  IF ns = {} THEN cur
        ELSE LET b == Best(c, q, ns)
             IN  IF distance(q, Vec(c, b)) < distance(q, Vec(c, cur))
                 THEN greedy(c, q, b, l) ELSE cur

\* greedy descent through layers l, l-1, ..., stop+1
RECURSIVE descend(_, _, _, _, _)
descend(c, q, cur, l, stop) ==
    IF l <= stop THEN cur
    ELSE descend(c, q, greedy(c, q, cur, l), l - 1, stop)

\* heuristic selector: candidates in ascending distance to qv; keep cand iff it
\* is closer to qv than to every neighbor already selected
RECURSIVE select_neighbors(_, _, _, _, _)
select_neighbors(c, qv, cands, m, selected) ==
    IF cands = <<>> \/ Cardinality(selected) >= m THEN selected
    ELSE LET cand == Head(cands)
             keep == \A s \in selected :
                        distance(Vec(c, cand), qv) < distance(Vec(c, cand), Vec(c, s))
         IN  select_neighbors(c, qv, Tail(cands), m,
                              IF keep THEN selected \cup {cand} ELSE selected)

MMax(c, l) == IF l = 0 THEN c.cfg.m_max0 ELSE c.cfg.m

\* bidirectional edges between i and each selected neighbor at layer l
connect(c, i, sel, l) ==
    [c EXCEPT !.nodes =
        [j \in DOMAIN @ |->
            IF j = i THEN [@[j] EXCEPT !.nbrs[l] = @ \cup sel]
            ELSE IF j \in sel THEN [@[j] EXCEPT !.nbrs[l] = @ \cup {i}]
            ELSE @[j]]]

\* Insert without step 3d: no neighbor is pruned
prune_skipped(c, sel, l) == c

\* each selected neighbor over its cap is pruned by the heuristic selector
prune(c, sel, l) ==
    [c EXCEPT !.nodes =
        [j \in DOMAIN @ |->
            IF j \in sel /\ Cardinality(@[j].nbrs[l]) > MMax(c, l)
            THEN [@[j] EXCEPT !.nbrs[l] =
                     select_neighbors(c, Vec(c, j), SortAsc(c, Vec(c, j), @),
                                      MMax(c, l), {})]
            ELSE @[j]]]

\* step 3 of Insert, for layers l, l-1, ..., 0
RECURSIVE link_layers(_, _, _, _, _)
link_layers(c, i, q, l, ep_list) ==
    IF l < 0 THEN c
    ELSE LET W == search_layer(c, q, ep_list, c.cfg.ef_construction, l, None)
             sel == select_neighbors(c, q, SortAsc(c, q, W), c.cfg.m, {})
         IN  link_layers(prune(connect(c, i, sel, l), sel, l), i, q, l - 1, sel)

\* Insert(i, vec) with drawn top layer L
hnsw_insert(c, i, L) ==
    LET node == [top |-> L, nbrs |-> [l \in 0..L |-> {}]]
        c0 == [c EXCEPT !.nodes = Put(@, i, node)]
    IN  IF c.entry_point = None
        THEN [c0 EXCEPT !.entry_point = Some(i)]
        ELSE LET ep == Unwrap(c.entry_point)
                 top == c.nodes[ep].top
                 q == Vec(c, i)
                 cur == descend(c0, q, ep, top, L)
                 c1 == link_layers(c0, i, q, Min(L, top), {cur})
             IN  IF L > top THEN [c1 EXCEPT !.entry_point = Some(i)] ELSE c1

\* what Delete(i) may leave as entry point: when i is the entry point, any
\* surviving ex-neighbor at its top layer (none of them: no entry point is
\* left); otherwise the entry point stays
promotions(c, i) ==
    IF c.entry_point = Some(i)
    THEN LET ex == neighbors(c, i, c.nodes[i].top) \cap (DOMAIN c.nodes \ {i})
         IN  IF ex = {} THEN {None} ELSE {Some(n) : n \in ex}
    ELSE {c.entry_point}

\* Delete(i): remove i from its neighbors' lists at every layer, destroy the
\* node, and replace the entry point by `promoted` (one of promotions(c, i))
hnsw_delete(c, i, promoted) ==
    [c EXCEPT
       !.nodes =
           [j \in DOMAIN @ \ {i} |->
               [@[j] EXCEPT !.nbrs =
                   [l \in DOMAIN @ |->
                       IF j \in neighbors(c, i, l) THEN @[l] \ {i} ELSE @[l]]]],
       !.entry_point = promoted]

\* an adjacency list at layer l holds the index of a node that does not reach
\* layer l: the out-of-range index on which the index routines may assert
\* (section 7); a run is not followed past the insert that would meet it
out_of_range(c) ==
    \E i \in DOMAIN c.nodes, l \in Layers :
        \E n \in neighbors(c, i, l) \cap DOMAIN c.nodes : l > c.nodes[n].top

\* Search(query, k, ef, filter?)
hnsw_search(c, q, k, filter) ==
    IF c.entry_point = None THEN Err(EmptyIndex)
    ELSE LET ef == Max(k, c.cfg.ef_search_default)
             ep == Unwrap(c.entry_point)
             cur == descend(c, q, ep, c.nodes[ep].top, 0)
             W == search_layer(c, q, {cur}, ef, 0, filter)
             sorted == SortAsc(c, q, W)
         IN  Ok(SubSeq(sorted, 1, Min(k, Len(sorted))))

---------------------------------------------------------------------------
(* 4.6 Collection *)

EmptyCollection(cfg) ==
    [cfg |-> cfg, records |-> <<>>, free |-> <<>>, id_map |-> <<>>,
     nodes |-> <<>>, entry_point |-> None, vector_count |-> 0]

\* insert that validates the dimension only, not id uniqueness
insert_any_id(c, id, v, md, L) ==
    IF Len(v) # c.cfg.dimensions
    THEN [coll |-> c, res |-> Err(DimensionMismatch(c.cfg.dimensions, Len(v)))]
    ELSE LET a == append(c, id, v, md)
         IN  IF ~a.ok THEN [coll |-> c, res |-> a]
             ELSE LET i == a.val.index
                      c1 == [a.val.coll EXCEPT !.id_map = Put(@, id, i)]
                  IN  [coll |-> hnsw_insert(c1, i, L), res |-> Ok(<<>>)]

\* insert: validates dimension and id uniqueness before calling the store
insert(c, id, v, md, L) ==
    IF Len(v) # c.cfg.dimensions
    THEN [coll |-> c, res |-> Err(DimensionMismatch(c.cfg.dimensions, Len(v)))]
    ELSE IF id \in DOMAIN c.id_map
    THEN [coll |-> c, res |-> Err(DuplicateId(id))]
    ELSE LET a == append(c, id, v, md)
         IN  IF ~a.ok THEN [coll |-> c, res |-> a]
             ELSE LET i == a.val.index
                      c1 == [a.val.coll EXCEPT !.id_map = Put(@, id, i)]
                  IN  [coll |-> hnsw_insert(c1, i, L), res |-> Ok(<<>>)]

\* delete that tombstones and unmaps the record but leaves the index alone
delete_store_only(c, id, promoted) ==
    IF id \notin DOMAIN c.id_map THEN [coll |-> c, res |-> Ok(FALSE)]
    ELSE [coll |-> [tombstone(c, c.id_map[id]) EXCEPT !.id_map = Drop(@, id)],
          res |-> Ok(TRUE)]

\* delete(id) -> bool
delete(c, id, promoted) ==
    IF id \notin DOMAIN c.id_map THEN [coll |-> c, res |-> Ok(FALSE)]
    ELSE LET i == c.id_map[id]
             c1 == hnsw_delete(tombstone(c, i), i, promoted)
         IN  [coll |-> [c1 EXCEPT !.id_map = Drop(@, id)], res |-> Ok(TRUE)]

\* what delete(id) may promote
delete_promotions(c, id) ==
    IF id \in DOMAIN c.id_map THEN promotions(c, c.id_map[id]) ELSE {None}

\* upsert that deletes the old record before the new vector is validated
upsert_delete_first(c, id, v, md, L, promoted) ==
    IF id \in DOMAIN c.id_map
    THEN insert(delete(c, id, promoted).coll, id, v, md, L)
    ELSE insert(c, id, v, md, L)

\* upsert: if id exists, delete old then insert new; otherwise insert
upsert(c, id, v, md, L, promoted) ==
    IF Len(v) # c.cfg.dimensions
    THEN [coll |-> c, res |-> Err(DimensionMismatch(c.cfg.dimensions, Len(v)))]
    ELSE IF id \in DOMAIN c.id_map
    THEN insert(delete(c, id, promoted).coll, id, v, md, L)
    ELSE insert(c, id, v, md, L)

\* get(id) -> Option<(vec, meta)>
get(c, id) ==
    IF id \in DOMAIN c.id_map
    THEN Ok(Some(<<Vec(c, c.id_map[id]), Meta(c, c.id_map[id])>>))
    ELSE Ok(None)

\* the keys of the id map in ascending order
RECURSIVE SortedIds(_)
SortedIds(S) ==
    IF S = {} THEN <<>>
    ELSE LET a == CHOOSE x \in S : \A y \in S : x <= y
         IN  <<a>> \o SortedIds(S \ {a})

\* list(offset, limit) -> [id]
list(c, offset, limit) ==
    LET all == SortedIds(DOMAIN c.id_map)
    IN  SubSeq(all, offset + 1, Min(Len(all), offset + limit))

\* search(query, k, filter?) -> [(id, distance, meta)]
search(c, q, k, filter) ==
    LET r == hnsw_search(c, q, k, filter)
    IN  IF ~r.ok THEN r
        ELSE Ok([n \in 1..Len(r.val) |->
                   <<c.records[r.val[n]].id,
                     distance(q, Vec(c, r.val[n])),
                     Meta(c, r.val[n])>>])

\* stats() -> {vector_count, ...}
stats(c) == [vector_count |-> c.vector_count]

---------------------------------------------------------------------------
(* Database: name -> Collection *)

get_collection(d, name) ==
    IF name \in DOMAIN d THEN Ok(d[name]) ELSE Err(CollectionNotFound(name))

db_create_collection(d, name, cfg) ==
    IF name \in DOMAIN d
    THEN [db |-> d, res |-> Err(DuplicateCollection(name))]
    ELSE [db |-> Put(d, name, EmptyCollection(cfg)), res |-> Ok(<<>>)]

\* list_collections() -> [name]: the names, in no particular order
db_list_collections(d) == DOMAIN d

db_delete_collection(d, name) ==
    IF name \in DOMAIN d
    THEN [db |-> Drop(d, name), res |-> Ok(<<>>)]
    ELSE [db |-> d, res |-> Err(CollectionNotFound(name))]

---------------------------------------------------------------------------
(* HTTP layer: surgedb-server/src/main.rs *)

OK == 200

BAD_REQUEST == 400

NOT_FOUND == 404

INTERNAL_SERVER_ERROR == 500

\* (StatusCode, Json(ErrorResponse { error: e.to_string() }))
ErrorResponse(status, e) == [status |-> status, body |-> [error |-> to_string(e)]]

Response(status, body) == [status |-> status, body |-> body]

\* the handler that answered last, and its response
Exchange(op, req, resp) ==
    [op |-> op, status |-> resp.status, body |-> resp.body]

\* state.db.get_collection(&name).map_err(...)?
collection_not_found(e) == ErrorResponse(NOT_FOUND, e)

\* create_collection_response that answers "Created" whatever the result
create_collection_response_always(result) == Response(OK, "Created")

create_collection_response(result) ==
    IF result.ok THEN Response(OK, "Created")
    ELSE ErrorResponse(BAD_REQUEST, result.err)

delete_collection_response(result) ==
    IF result.ok THEN Response(OK, "Deleted")
    ELSE ErrorResponse(NOT_FOUND, result.err)

\* insert_response with the error arm of delete_vector
insert_response_not_found(result) ==
    IF result.ok THEN Response(OK, "Inserted")
    ELSE ErrorResponse(NOT_FOUND, result.err)

insert_response(result) ==
    IF result.ok THEN Response(OK, "Inserted")
    ELSE ErrorResponse(BAD_REQUEST, result.err)

upsert_response(result) ==
    IF result.ok THEN Response(OK, "Upserted")
    ELSE ErrorResponse(BAD_REQUEST, result.err)

\* get_response that leaves the metadata out of the VectorResponse
get_response_no_metadata(id, result) ==
    IF result.ok /\ IsSome(result.val)
    THEN Response(OK, [id |-> id, vector |-> Unwrap(result.val)[1], metadata |-> None])
    ELSE IF result.ok THEN Response(NOT_FOUND, [error |-> <<"Vector not found">>])
    ELSE ErrorResponse(INTERNAL_SERVER_ERROR, result.err)

get_response(id, result) ==
    IF result.ok /\ IsSome(result.val)
    THEN Response(OK, [id |-> id, vector |-> Unwrap(result.val)[1],
                       metadata |-> Unwrap(result.val)[2]])
    ELSE IF result.ok THEN Response(NOT_FOUND, [error |-> <<"Vector not found">>])
    ELSE ErrorResponse(INTERNAL_SERVER_ERROR, result.err)

\* delete_response that answers every Ok, true or false, with "Deleted"
delete_response_ignore_bool(result) ==
    IF result.ok THEN Response(OK, "Deleted")
    ELSE ErrorResponse(INTERNAL_SERVER_ERROR, result.err)

delete_response(result) ==
    IF result.ok /\ result.val THEN Response(OK, "Deleted")
    ELSE IF result.ok THEN Response(NOT_FOUND, [error |-> <<"Vector not found">>])
    ELSE ErrorResponse(INTERNAL_SERVER_ERROR, result.err)

\* list_offset with a default of 1
list_offset_from_one(params) == IF IsSome(params.offset) THEN Unwrap(params.offset) ELSE 1

\* params.offset.unwrap_or(0)
list_offset(params) == IF IsSome(params.offset) THEN Unwrap(params.offset) ELSE 0

\* params.limit.unwrap_or(10).min(100)
list_limit(params) == Min(IF IsSome(params.limit) THEN Unwrap(params.limit) ELSE 10, 100)

\* the call without the filter, as the reduced server makes it
search_call_no_filter(c, q, k, filter) == search(c, q, k, None)

\* the call with a fixed k instead of payload.k
search_call_fixed_k(c, q, k, filter) == search(c, q, 10, filter)

\* collection.search(&payload.vector, payload.k, payload.filter.as_ref())
search_call(c, q, k, filter) == search(c, q, k, filter)

search_response(result) ==
    IF result.ok
    THEN Response(OK, [n \in 1..Len(result.val) |->
                          [id |-> result.val[n][1], distance |-> result.val[n][2],
                           metadata |-> result.val[n][3]]])
    ELSE ErrorResponse(BAD_REQUEST, result.err)

\* the pagination parameters of the list requests
Paginations ==
    {[offset |-> None, limit |-> None],
     [offset |-> Some(1), limit |-> Some(1)],
     [offset |-> Some(0), limit |-> Some(200)]}

\* POST /collections {name, dimensions}
create_collection_of(name, dimensions) ==
    /\ UNCHANGED conc
    /\ LET r == db_create_collection(db, name,
                                     [DefaultConfig EXCEPT !.dimensions = dimensions])
       IN  /\ db' = r.db
           /\ last' = Exchange("create_collection", [name |-> name],
                               create_collection_response(r.res))

create_collection(name) == create_collection_of(name, Dimensions)

\* GET /collections
list_collections ==
    /\ last' = Exchange("list_collections", <<>>, Response(OK, db_list_collections(db)))
    /\ UNCHANGED <<db, conc>>

delete_collection(name) ==
    /\ UNCHANGED conc
    /\ LET r == db_delete_collection(db, name)
       IN  /\ db' = r.db
           /\ last' = Exchange("delete_collection", [name |-> name],
                               delete_collection_response(r.res))

\* insert_vector over an index shared by all collections: the vector enters
\* every collection that accepts it
insert_vector_shared(name, id, v, md, L) ==
    /\ UNCHANGED conc
    /\ LET h == get_collection(db, name)
           req == [name |-> name, id |-> id, vector |-> v, metadata |-> md]
       IN  IF ~h.ok
           THEN /\ last' = Exchange("insert", req, collection_not_found(h.err))
                /\ UNCHANGED db
           ELSE /\ db' = [n \in DOMAIN db |-> insert(db[n], id, v, md, L).coll]
                /\ last' = Exchange("insert", req,
                                    insert_response(insert(h.val, id, v, md, L).res))

insert_vector(name, id, v, md, L) ==
    /\ UNCHANGED conc
    /\ LET h == get_collection(db, name)
           req == [name |-> name, id |-> id, vector |-> v, metadata |-> md]
       IN  IF ~h.ok
           THEN /\ last' = Exchange("insert", req, collection_not_found(h.err))
                /\ UNCHANGED db
           ELSE LET r == insert(h.val, id, v, md, L)
                IN  /\ db' = [db EXCEPT ![name] = r.coll]
                    /\ last' = Exchange("insert", req, insert_response(r.res))

upsert_vector(name, id, v, md, L) ==
    /\ UNCHANGED conc
    /\ LET h == get_collection(db, name)
           req == [name |-> name, id |-> id, vector |-> v, metadata |-> md]
       IN  IF ~h.ok
           THEN /\ last' = Exchange("upsert", req, collection_not_found(h.err))
                /\ UNCHANGED db
           ELSE \E promoted \in delete_promotions(h.val, id) :
                    LET r == upsert(h.val, id, v, md, L, promoted)
                    IN  /\ db' = [db EXCEPT ![name] = r.coll]
                        /\ last' = Exchange("upsert", req, upsert_response(r.res))

delete_vector(name, id) ==
    /\ UNCHANGED conc
    /\ LET h == get_collection(db, name)
           req == [name |-> name, id |-> id]
       IN  IF ~h.ok
           THEN /\ last' = Exchange("delete", req, collection_not_found(h.err))
                /\ UNCHANGED db
           ELSE \E promoted \in delete_promotions(h.val, id) :
                    LET r == delete(h.val, id, promoted)
                    IN  /\ db' = [db EXCEPT ![name] = r.coll]
                        /\ last' = Exchange("delete", req, delete_response(r.res))

get_vector(name, id) ==
    /\ UNCHANGED conc
    /\ LET h == get_collection(db, name)
           req == [name |-> name, id |-> id]
       IN  /\ last' = Exchange("get", req,
                               IF ~h.ok THEN collection_not_found(h.err)
                               ELSE get_response(id, get(h.val, id)))
           /\ UNCHANGED db

list_vectors(name, params) ==
    /\ UNCHANGED conc
    /\ LET h == get_collection(db, name)
           req == [name |-> name, params |-> params]
       IN  /\ last' = Exchange("list", req,
                               IF ~h.ok THEN collection_not_found(h.err)
                               ELSE Response(OK, list(h.val, list_offset(params),
                                                      list_limit(params))))
           /\ UNCHANGED db

search_vector(name, q, k, filter) ==
    /\ UNCHANGED conc
    /\ LET h == get_collection(db, name)
           req == [name |-> name, vector |-> q, k |-> k, filter |-> filter]
       IN  /\ last' = Exchange("search", req,
                               IF ~h.ok THEN collection_not_found(h.err)
                               ELSE search_response(search_call(h.val, q, k, filter)))
           /\ UNCHANGED db

\* database stats: per collection, its stats()
get_stats ==
    /\ UNCHANGED conc
    /\ last' = Exchange("stats", <<>>,
                        Response(OK, [n \in DOMAIN db |-> stats(db[n])]))
    /\ UNCHANGED db

\* AppConfig::from_env() with no variable set: no API key, 10 MB of body
DefaultMaxRequestSize == 10485760

DefaultAppConfig ==
    [api_key |-> None, max_request_size_bytes |-> DefaultMaxRequestSize]

---------------------------------------------------------------------------
(* The specification *)

\* Database::new(): no collection; no request answered yet
Init ==
    /\ db = <<>>
    /\ last = Exchange("start", <<>>, Response(OK, <<>>))
    /\ registry = <<>> /\ arena = <<>> /\ tasks = <<>>
    /\ config = DefaultAppConfig

Next ==
    \/ \E name \in Names : create_collection(name)
    \/ \E name \in Names : delete_collection(name)
    \/ \E name \in Names, id \in Ids, v \in Vectors, md \in Metadatas, L \in Layers :
           insert_vector(name, id, v, md, L)
    \/ \E name \in Names, id \in Ids, v \in Vectors, md \in Metadatas, L \in Layers :
           upsert_vector(name, id, v, md, L)
    \/ \E name \in Names, id \in Ids : delete_vector(name, id)
    \/ \E name \in Names, id \in Ids : get_vector(name, id)
    \/ \E name \in Names, params \in Paginations : list_vectors(name, params)
    \/ \E name \in Names, q \in Queries, k \in Ks, filter \in Filters :
           search_vector(name, q, k, filter)
    \/ get_stats

Spec == Init /\ [][Next]_vars

---------------------------------------------------------------------------
(* Properties *)

\* the ids of the live (non-tombstoned) records of a collection
LiveIds(c) == {c.records[i].id : i \in LiveSlots(c)}

NoRepeat(seq) == \A a, b \in DOMAIN seq : a # b => seq[a] # seq[b]

\* the collections of the database
Collections == {db[n] : n \in DOMAIN db}

\* the response of GET /vectors with the default offset and a limit that
\* covers the collection
ListAll(c) ==
    LET params == [offset |-> None, limit |-> Some(Cardinality(Slots(c)) + 1)]
    IN  list(c, list_offset(params), list_limit(params))

\* C1: in every reachable state, with N the number of live records of a
\* collection, stats reports vector_count = N and listing from offset 0 with a
\* limit that covers the collection returns exactly N pairwise-distinct ids,
\* which are the live ids.
C1_CountAndList ==
    \A c \in Collections :
        LET N == Cardinality(LiveSlots(c))
        IN  /\ stats(c).vector_count = N
            /\ Len(ListAll(c)) = N
            /\ NoRepeat(ListAll(c))
            /\ {ListAll(c)[n] : n \in 1..N} = LiveIds(c)

\* C1 witness: a delete has just succeeded and left one live vector beside a
\* freed slot.
C1_Witness ==
    /\ last.op = "delete" /\ last.status = OK
    /\ \E c \in Collections :
          /\ Cardinality(LiveSlots(c)) = 1
          /\ Len(c.free) = 1
          /\ stats(c).vector_count = 1

\* C2: in every reachable state, for every id, vector v of the configured
\* dimension and metadata md, upsert(id, v, md) succeeds and get(id) on the
\* resulting collection is Some((v, md)), answered 200 with that vector and
\* metadata; id may be absent, live or previously deleted.
C2_UpsertGetRoundTrip ==
    \A c \in Collections :
        \A id \in Ids, v \in ValidVectors, md \in Metadatas, L \in Layers :
            \A promoted \in delete_promotions(c, id) :
                LET r == upsert(c, id, v, md, L, promoted)
                IN  /\ r.res.ok
                    /\ get(r.coll, id) = Ok(Some(<<v, md>>))
                    /\ get_response(id, get(r.coll, id))
                         = Response(OK, [id |-> id, vector |-> v, metadata |-> md])

\* C2 witness: an upsert has just succeeded in a collection that holds a
\* tombstoned record (an earlier delete) and a live record with metadata.
C2_Witness ==
    /\ last.op = "upsert" /\ last.status = OK
    /\ \E c \in Collections :
          /\ \E i \in Slots(c) : Tombstoned(c, i)
          /\ \E id \in DOMAIN c.id_map :
                get(c, id).val # None /\ Unwrap(get(c, id).val)[2] # None

\* C3 as stated: insert with a live id returns DuplicateId whatever the
\* vector, and changes nothing.
C3_Original ==
    \A c \in Collections :
        \A id \in DOMAIN c.id_map, v \in Vectors, md \in Metadatas, L \in Layers :
            insert(c, id, v, md, L) = [coll |-> c, res |-> Err(DuplicateId(id))]

\* C3 amended: insert with a live id and a vector of the configured dimension
\* returns DuplicateId (answered 400 with its message); with a vector of
\* another length it returns DimensionMismatch; in both cases the collection
\* (records, free list, id map, graph, entry point, count) is unchanged.
C3_DuplicateIdNoEffect ==
    \A c \in Collections :
        \A id \in DOMAIN c.id_map, v \in Vectors, md \in Metadatas, L \in Layers :
            LET r == insert(c, id, v, md, L)
            IN  /\ r.coll = c
                /\ ~r.res.ok
                /\ r.res.err.kind =
                      IF v \in ValidVectors THEN "DuplicateId" ELSE "DimensionMismatch"
                /\ v \in ValidVectors =>
                      insert_response(r.res)
                        = Response(BAD_REQUEST, [error |-> <<"Duplicate vector ID: ", id>>])

\* C3 witness: an insert has just been refused as a duplicate.
C3_Witness ==
    /\ last.op = "insert" /\ last.status = BAD_REQUEST
    /\ \E id \in Ids : last.body = [error |-> <<"Duplicate vector ID: ", id>>]
    /\ \E c \in Collections : c.id_map # <<>>

\* C4: in every reachable state, insert of a vector whose length differs from
\* the configured dimensions returns DimensionMismatch (answered 400) and the
\* collection - records, free list, id map, every adjacency list, the entry
\* point and the count - is exactly as before.
C4_DimensionGuard ==
    \A c \in Collections :
        \A id \in Ids, v \in WrongVectors, md \in Metadatas, L \in Layers :
            LET r == insert(c, id, v, md, L)
            IN  /\ r.coll = c
                /\ r.res = Err(DimensionMismatch(c.cfg.dimensions, Len(v)))
                /\ insert_response(r.res).status = BAD_REQUEST
                /\ insert_response(r.res).body =
                      [error |-> <<"Dimension mismatch: expected ",
                                   c.cfg.dimensions, ", got ", Len(v)>>]

\* C4 witness: an insert into a collection with a linked graph has just been
\* refused for its dimension.
C4_Witness ==
    /\ last.op = "insert" /\ last.status = BAD_REQUEST
    /\ last.body = [error |-> <<"Dimension mismatch: expected ", Dimensions, ", got ", 2>>]
    /\ \E c \in Collections : \E i \in DOMAIN c.nodes : neighbors(c, i, 0) # {}

\* C5: in every reachable state, delete of a live id returns true (answered
\* 200) and a delete of the same id on the resulting collection returns false
\* (answered 404) and leaves that collection unchanged; so does the delete of
\* any id that is not live.
C5_DeleteIdempotent ==
    \A c \in Collections :
        /\ \A id \in DOMAIN c.id_map :
              \A promoted \in delete_promotions(c, id) :
                  LET first == delete(c, id, promoted)
                  IN  /\ first.res = Ok(TRUE)
                      /\ delete_response(first.res).status = OK
                      /\ \A again \in delete_promotions(first.coll, id) :
                            LET second == delete(first.coll, id, again)
                            IN  /\ second.res = Ok(FALSE)
                                /\ second.coll = first.coll
                                /\ delete_response(second.res).status = NOT_FOUND
        /\ \A id \in Ids \ DOMAIN c.id_map :
              \A promoted \in delete_promotions(c, id) :
                  /\ delete(c, id, promoted) = [coll |-> c, res |-> Ok(FALSE)]
                  /\ delete_response(delete(c, id, promoted).res).status = NOT_FOUND

\* C5 witness: a delete has just been answered 404 for an id whose tombstoned
\* record is still in the store, beside a live record.
C5_Witness ==
    /\ last.op = "delete" /\ last.status = NOT_FOUND
    /\ \E c \in Collections :
          /\ LiveSlots(c) # {}
          /\ \E i \in Slots(c) :
                Tombstoned(c, i) /\ c.records[i].id \notin DOMAIN c.id_map

\* the body of the answer to POST /search on collection c
SearchBody(c, q, k, filter) == search_response(search_call(c, q, k, filter)).body

SearchOk(c, q, k, filter) == search_response(search_call(c, q, k, filter)).status = OK

\* the live slots whose metadata the filter admits
Matching(c, filter) == {i \in LiveSlots(c) : admits(filter, Meta(c, i))}

\* C6: in every reachable state, every id a search returns is live (mapped by
\* the id map to a non-tombstoned record holding that id), so the number of
\* results does not exceed the number of live vectors.
C6_NoDeletedInResults ==
    \A c \in Collections :
        \A q \in Queries, k \in Ks, filter \in Filters :
            SearchOk(c, q, k, filter) =>
                LET body == SearchBody(c, q, k, filter)
                IN  /\ \A n \in DOMAIN body :
                          /\ body[n].id \in DOMAIN c.id_map
                          /\ ~Tombstoned(c, c.id_map[body[n].id])
                          /\ c.records[c.id_map[body[n].id]].id = body[n].id
                    /\ Len(body) <= Cardinality(LiveSlots(c))

\* C6 witness: a search has just returned a live id from a collection that
\* also holds the tombstoned record of a deleted id.
C6_Witness ==
    /\ last.op = "search" /\ last.status = OK /\ Len(last.body) = 1
    /\ \E c \in Collections :
          /\ \E i \in Slots(c) :
                Tombstoned(c, i) /\ c.records[i].id # last.body[1].id
          /\ last.body[1].id \in LiveIds(c)

\* C7: in every reachable state, for every search with a filter F, the
\* metadata of every returned result satisfies F.
C7_FilterSound ==
    \A c \in Collections :
        \A q \in Queries, k \in Ks, filter \in Filters \ {None} :
            SearchOk(c, q, k, filter) =>
                \A n \in DOMAIN SearchBody(c, q, k, filter) :
                    matches(Unwrap(filter), SearchBody(c, q, k, filter)[n].metadata)

\* C7 witness: a search has just answered with the one result a filtered
\* search with k = 2 gives on a collection of two live vectors, of which the
\* entry point does not match the filter.
C7_Witness ==
    /\ last.op = "search" /\ last.status = OK
    /\ \E c \in Collections :
          \E q \in Queries, filter \in Filters \ {None} :
              /\ Cardinality(LiveSlots(c)) = 2
              /\ ~matches(Unwrap(filter), Meta(c, Unwrap(c.entry_point)))
              /\ Len(SearchBody(c, q, 2, filter)) = 1
              /\ last.body = SearchBody(c, q, 2, filter)

\* C8 as stated: on a non-empty collection every search succeeds and returns
\* min(k, number of live vectors whose metadata satisfies the filter) results.
C8_Original ==
    \A c \in Collections :
        \A q \in Queries, k \in Ks, filter \in Filters :
            LiveSlots(c) # {} =>
                /\ SearchOk(c, q, k, filter)
                /\ Len(SearchBody(c, q, k, filter))
                     = Min(k, Cardinality(Matching(c, filter)))

\* C9: in every reachable state, a search returns at most k results, no id
\* twice, in non-decreasing order of distance to the query.
C9_AtMostKSorted ==
    \A c \in Collections :
        \A q \in Queries, k \in Ks, filter \in Filters :
            SearchOk(c, q, k, filter) =>
                LET body == SearchBody(c, q, k, filter)
                IN  /\ Len(body) <= k
                    /\ \A a, b \in DOMAIN body : a # b => body[a].id # body[b].id
                    /\ \A n \in 1..(Len(body) - 1) :
                          body[n].distance <= body[n + 1].distance

\* C9 witness: a search has just returned two results at different distances.
C9_Witness ==
    /\ last.op = "search" /\ last.status = OK
    /\ Len(last.body) = 2
    /\ last.body[1].distance < last.body[2].distance

\* C10 as stated: search fails with EmptyIndex (answered 400) exactly when
\* the collection holds no live vector.
C10_Original ==
    \A c \in Collections :
        \A q \in Queries, k \in Ks, filter \in Filters :
            /\ search(c, q, k, filter) = Err(EmptyIndex) <=> LiveSlots(c) = {}
            /\ search(c, q, k, filter) = Err(EmptyIndex) =>
                  search_response(search_call(c, q, k, filter))
                    = Response(BAD_REQUEST, [error |-> <<"Index is empty, cannot search">>])

---------------------------------------------------------------------------
(* The index under a small degree: one collection driven through the core  *)
(* API as the fuzz target fuzz_hnsw drives it (insert, upsert, delete with *)
(* their results dropped), with the HNSW knobs m = 1 and m_max0 = 2 so     *)
(* that a node exceeds its cap with few vectors.                           *)

GraphIds == 3

GraphCoord == 1

\* the vectors the operations carry
GraphVectors == [1..Dimensions -> 0..GraphCoord]

\* Config { m: 1, m_max0: 2, ..Default::default() }
SmallConfig == [DefaultConfig EXCEPT !.m = 1, !.m_max0 = 2]

\* Operation::Insert: let _ = db.insert(format!("vec_{}", id), &vector, None)
op_insert(id, v, L) ==
    /\ UNCHANGED conc
    /\ ~out_of_range(db["g"])
    /\ db' = [db EXCEPT !["g"] = insert(@, id, v, None, L).coll]
    /\ UNCHANGED last

\* Operation::Upsert: let _ = db.upsert(format!("vec_{}", id), &vector, None)
op_upsert(id, v, L) ==
    /\ UNCHANGED conc
    /\ ~out_of_range(db["g"])
    /\ \E promoted \in delete_promotions(db["g"], id) :
           db' = [db EXCEPT !["g"] = upsert(@, id, v, None, L, promoted).coll]
    /\ UNCHANGED last

\* Operation::Delete: let _ = db.delete(format!("vec_{}", id))
op_delete(id) ==
    /\ UNCHANGED conc
    /\ \E promoted \in delete_promotions(db["g"], id) :
           db' = [db EXCEPT !["g"] = delete(@, id, promoted).coll]
    /\ UNCHANGED last

\* VectorDb::new(config)
GraphInit ==
    /\ db = [n \in {"g"} |-> EmptyCollection(SmallConfig)]
    /\ last = Exchange("start", <<>>, Response(OK, <<>>))
    /\ registry = <<>> /\ arena = <<>> /\ tasks = <<>>
    /\ config = DefaultAppConfig

GraphNext ==
    \/ \E id \in 1..GraphIds, v \in GraphVectors, L \in Layers : op_insert(id, v, L)
    \/ \E id \in 1..GraphIds, v \in GraphVectors, L \in Layers : op_upsert(id, v, L)
    \/ \E id \in 1..GraphIds : op_delete(id)

GraphSpec == GraphInit /\ [][GraphNext]_vars

\* C11 as stated: in every state between two mutations, at every layer, a is
\* a neighbor of b if and only if b is a neighbor of a.
C11_Original ==
    \A c \in Collections :
        \A a, b \in Slots(c), l \in Layers :
            a \in neighbors(c, b, l) <=> b \in neighbors(c, a, l)

C13_Original ==
    \A c \in Collections :
        \A i \in LiveSlots(c), l \in Layers :
            \A n \in neighbors(c, i, l) : ~Tombstoned(c, n)

---------------------------------------------------------------------------
(* Section 5: concurrent requests.  A handler obtains the collection with  *)
(* get_collection (an Arc<Collection>), runs the core call on a blocking   *)
(* worker (spawn_blocking) and answers.  The collection guards {store,     *)
(* graph, id map} with one reader-writer lock: insert, upsert and delete   *)
(* hold it for writing for the whole call, get, list and search for        *)
(* reading.  An upsert of a live id is two steps under one write lock.     *)

NumThreads == 2

Threads == 1..NumThreads

\* a worker with no request
Idle == [pc |-> "idle"]

WriteOps == {"insert", "upsert", "delete"}

ReadOps == {"get", "list", "search"}

InsertReq(id, v, L) == [op |-> "insert", id |-> id, v |-> v, md |-> None, L |-> L]

UpsertReq(id, v, L) == [op |-> "upsert", id |-> id, v |-> v, md |-> None, L |-> L]

DeleteReq(id) == [op |-> "delete", id |-> id]

GetReq(id) == [op |-> "get", id |-> id]

ListReq == [op |-> "list", params |-> [offset |-> None, limit |-> None]]

SearchReq(q, k) == [op |-> "search", q |-> q, k |-> k, filter |-> None]

\* Arc::new(Collection::new(config)): the map holds the first reference
new_arc(cfg) ==
    [coll |-> EmptyCollection(cfg), committed |-> EmptyCollection(cfg),
     strong |-> 1, writer |-> None, readers |-> {}]

\* Arc::clone
arc_clone(a, o) == [a EXCEPT ![o].strong = @ + 1]

\* drop of an Arc: the collection is freed with its last reference
arc_drop(a, o) ==
    IF a[o].strong = 1 THEN Drop(a, o) ELSE [a EXCEPT ![o].strong = @ - 1]

\* what a reader computes from the collection it reads
read(c, req) ==
    CASE req.op = "get" -> get(c, req.id)
      [] req.op = "list" -> Ok(list(c, list_offset(req.params), list_limit(req.params)))
      [] req.op = "search" -> search_call(c, req.q, req.k, req.filter)

\* handler_begin that takes the collection without a reference of its own
handler_begin_borrowed(t, name, req) ==
    /\ tasks[t].pc = "idle"
    /\ IF name \in DOMAIN registry
       THEN tasks' = [tasks EXCEPT ![t] =
                         [pc |-> "spawned", handle |-> Some(registry[name]), req |-> req]]
       ELSE tasks' = [tasks EXCEPT ![t] =
                         [pc |-> "done", handle |-> None, req |-> req,
                          result |-> Err(CollectionNotFound(name))]]
    /\ UNCHANGED <<config, db, last, registry, arena>>

\* let collection = state.db.get_collection(&name)...?; spawn_blocking(...)
handler_begin(t, name, req) ==
    /\ tasks[t].pc = "idle"
    /\ IF name \in DOMAIN registry
       THEN /\ tasks' = [tasks EXCEPT ![t] =
                           [pc |-> "spawned", handle |-> Some(registry[name]), req |-> req]]
            /\ arena' = arc_clone(arena, registry[name])
       ELSE /\ tasks' = [tasks EXCEPT ![t] =
                           [pc |-> "done", handle |-> None, req |-> req,
                            result |-> Err(CollectionNotFound(name))]]
            /\ UNCHANGED arena
    /\ UNCHANGED <<config, db, last, registry>>

\* the collection a worker's handle refers to
target(t) == Unwrap(tasks[t].handle)

\* write(): waits until no writer and no reader holds the lock
lock_write(t) ==
    /\ tasks[t].pc = "spawned" /\ tasks[t].req.op \in WriteOps
    /\ arena[target(t)].writer = None /\ arena[target(t)].readers = {}
    /\ arena' = [arena EXCEPT ![target(t)].writer = Some(t)]
    /\ tasks' = [tasks EXCEPT ![t].pc = "locked"]
    /\ UNCHANGED <<config, db, last, registry>>

\* the end of a writing call: the result is kept, the guard is dropped
finish_write(t, coll, res) ==
    /\ arena' = [arena EXCEPT ![target(t)] =
                    [@ EXCEPT !.coll = coll, !.committed = coll, !.writer = None]]
    /\ tasks' = [tasks EXCEPT ![t] = [pc |-> "done", handle |-> @.handle, req |-> @.req,
                                      result |-> res]]
    /\ UNCHANGED <<config, db, last, registry>>

\* collection.insert(id, &vector, metadata) under the write lock
run_insert(t) ==
    /\ tasks[t].pc = "locked" /\ tasks[t].req.op = "insert"
    /\ ~out_of_range(arena[target(t)].coll)
    /\ LET req == tasks[t].req
           r == insert(arena[target(t)].coll, req.id, req.v, req.md, req.L)
       IN  finish_write(t, r.coll, r.res)

\* collection.delete(&id) under the write lock
run_delete(t) ==
    /\ tasks[t].pc = "locked" /\ tasks[t].req.op = "delete"
    /\ \E promoted \in delete_promotions(arena[target(t)].coll, tasks[t].req.id) :
           LET r == delete(arena[target(t)].coll, tasks[t].req.id, promoted)
           IN  finish_write(t, r.coll, r.res)

\* upsert as delete(id) followed by insert(..), each taking the lock itself:
\* the write guard is dropped between the two halves
upsert_delete_old_unlocked(t) ==
    /\ tasks[t].pc = "locked" /\ tasks[t].req.op = "upsert"
    /\ LET req == tasks[t].req
           c == arena[target(t)].coll
       IN  IF Len(req.v) # c.cfg.dimensions
           THEN finish_write(t, c, Err(DimensionMismatch(c.cfg.dimensions, Len(req.v))))
           ELSE /\ \E promoted \in delete_promotions(c, req.id) :
                       arena' = [arena EXCEPT ![target(t)] =
                                    [@ EXCEPT !.coll = delete(c, req.id, promoted).coll,
                                              !.writer = None]]
                /\ tasks' = [tasks EXCEPT ![t].pc = "mid"]
                /\ UNCHANGED <<config, db, last, registry>>

\* collection.upsert, first half: a wrong dimension ends the call; a live id
\* is deleted and the lock is kept for the second half
upsert_delete_old(t) ==
    /\ tasks[t].pc = "locked" /\ tasks[t].req.op = "upsert"
    /\ LET req == tasks[t].req
           c == arena[target(t)].coll
       IN  IF Len(req.v) # c.cfg.dimensions
           THEN finish_write(t, c, Err(DimensionMismatch(c.cfg.dimensions, Len(req.v))))
           ELSE /\ \E promoted \in delete_promotions(c, req.id) :
                       arena' = [arena EXCEPT ![target(t)].coll =
                                    delete(c, req.id, promoted).coll]
                /\ tasks' = [tasks EXCEPT ![t].pc = "mid"]
                /\ UNCHANGED <<config, db, last, registry>>

\* collection.upsert, second half: insert the new record
upsert_insert_new(t) ==
    /\ tasks[t].pc = "mid"
    /\ ~out_of_range(arena[target(t)].coll)
    /\ LET req == tasks[t].req
           r == insert(arena[target(t)].coll, req.id, req.v, req.md, req.L)
       IN  finish_write(t, r.coll, r.res)

\* read() that does not wait for the writer
lock_read_unguarded(t) ==
    /\ tasks[t].pc = "spawned" /\ tasks[t].req.op \in ReadOps
    /\ arena' = [arena EXCEPT ![target(t)].readers = @ \cup {t}]
    /\ tasks' = [tasks EXCEPT ![t].pc = "reading"]
    /\ UNCHANGED <<config, db, last, registry>>

\* read(): waits until no writer holds the lock
lock_read(t) ==
    /\ tasks[t].pc = "spawned" /\ tasks[t].req.op \in ReadOps
    /\ arena[target(t)].writer = None
    /\ arena' = [arena EXCEPT ![target(t)].readers = @ \cup {t}]
    /\ tasks' = [tasks EXCEPT ![t].pc = "reading"]
    /\ UNCHANGED <<config, db, last, registry>>

\* collection.get / list / search under the read lock.  prefix is the state
\* the last completed write left; torn tells whether an upsert stood between
\* its two halves when the reader looked
run_read(t) ==
    /\ tasks[t].pc = "reading"
    /\ arena' = [arena EXCEPT ![target(t)].readers = @ \ {t}]
    /\ tasks' = [tasks EXCEPT ![t] =
                    [pc |-> "done", handle |-> @.handle, req |-> @.req,
                     result |-> read(arena[target(t)].coll, @.req),
                     prefix |-> arena[target(t)].committed,
                     torn |-> \E w \in Threads :
                                 /\ tasks[w].pc = "mid"
                                 /\ tasks[w].handle = tasks[t].handle]]
    /\ UNCHANGED <<config, db, last, registry>>

\* the handler answers and its Arc goes out of scope
handler_end(t) ==
    /\ tasks[t].pc = "done"
    /\ tasks' = [tasks EXCEPT ![t] = Idle]
    /\ arena' = IF IsSome(tasks[t].handle) THEN arc_drop(arena, target(t)) ELSE arena
    /\ UNCHANGED <<config, db, last, registry>>

\* db.create_collection(&name, config): a new Arc<Collection> enters the map
registry_create(name, cfg) ==
    /\ IF name \in DOMAIN registry
       THEN UNCHANGED <<registry, arena>>
       ELSE LET o == CHOOSE x \in 1..(Cardinality(DOMAIN arena) + 1) : x \notin DOMAIN arena
            IN  /\ registry' = Put(registry, name, o)
                /\ arena' = Put(arena, o, new_arc(cfg))
    /\ UNCHANGED <<config, db, last, tasks>>

ConcIds == 2

\* the requests the workers carry
ConcRequests ==
    {InsertReq(id, v, 0) : id \in 1..ConcIds, v \in GraphVectors}
      \cup {UpsertReq(id, v, 0) : id \in 1..ConcIds, v \in GraphVectors}
      \cup {DeleteReq(id) : id \in 1..ConcIds}
      \cup {GetReq(id) : id \in 1..ConcIds}
      \cup {ListReq}
      \cup {SearchReq(<<0>>, MaxK)}

\* Database::new(); every worker idle
ConcInit ==
    /\ db = <<>>
    /\ last = Exchange("start", <<>>, Response(OK, <<>>))
    /\ registry = <<>>
    /\ arena = <<>>
    /\ tasks = [t \in Threads |-> Idle]
    /\ config = DefaultAppConfig

ConcNext ==
    \/ \E name \in Names : registry_create(name, DefaultConfig)
    \/ \E t \in Threads, name \in Names, req \in ConcRequests : handler_begin(t, name, req)
    \/ \E t \in Threads : lock_write(t)
    \/ \E t \in Threads : run_insert(t)
    \/ \E t \in Threads : run_delete(t)
    \/ \E t \in Threads : upsert_delete_old(t)
    \/ \E t \in Threads : upsert_insert_new(t)
    \/ \E t \in Threads : lock_read(t)
    \/ \E t \in Threads : run_read(t)
    \/ \E t \in Threads : handler_end(t)

ConcSpec == ConcInit /\ [][ConcNext]_vars

\* the collections behind the Arcs
Arcs == DOMAIN arena

\* the workers that have their answer
Done(t) == tasks[t].pc = "done"

\* C14: the writes of a collection take effect one at a time, in the order in
\* which they hold the write lock, and every get, list or search that has
\* answered returned exactly what it returns on the state left by the last
\* write completed before the reader looked - a prefix of that order, taken
\* between the reader's call and its answer, never the middle of a write.
C14_Linearizable ==
    \A t \in Threads :
        (Done(t) /\ IsSome(tasks[t].handle) /\ tasks[t].req.op \in ReadOps) =>
            tasks[t].result = read(tasks[t].prefix, tasks[t].req)

\* C14 witness: a reader has its answer, taken before an upsert of the same
\* collection deleted the old record; the upsert now stands between its two
\* halves, where the reader would have been answered differently.
C14_Witness ==
    \E t, w \in Threads :
        /\ Done(t) /\ tasks[t].req.op \in ReadOps /\ IsSome(tasks[t].handle)
        /\ tasks[w].pc = "mid" /\ tasks[w].handle = tasks[t].handle
        /\ read(arena[target(t)].coll, tasks[t].req) # tasks[t].result

\* the graph of collection c is valid: symmetric edges, degrees within the
\* caps, no tombstoned index in a live node's lists (section 8, 2 - 4)
ValidGraph(c) ==
    /\ \A a, b \in Slots(c), l \in Layers :
          a \in neighbors(c, b, l) <=> b \in neighbors(c, a, l)
    /\ \A i \in LiveSlots(c), l \in Layers :
          Cardinality(neighbors(c, i, l)) <= (IF l = 0 THEN c.cfg.m_max0 ELSE c.cfg.m)
    /\ \A i \in LiveSlots(c), l \in Layers, n \in Slots(c) :
          n \in neighbors(c, i, l) => ~Tombstoned(c, n)

\* C15 as stated: whenever every worker has finished, the graph of every
\* collection is valid.
C15_Original ==
    (\A t \in Threads : tasks[t].pc = "idle") =>
        \A o \in Arcs : ValidGraph(arena[o].coll)

\* the writes of the workers on a collection of small degree (a search leaves
\* the graph as it is); every new node draws the top layer
QuiesceRequests ==
    {InsertReq(id, <<0>>, MaxLayer) : id \in 1..GraphIds}
      \cup {UpsertReq(id, <<0>>, MaxLayer) : id \in 1..GraphIds}
      \cup {DeleteReq(id) : id \in 1..GraphIds}

QuiesceNext ==
    \/ \E name \in Names : registry_create(name, SmallConfig)
    \/ \E t \in Threads, name \in Names, req \in QuiesceRequests : handler_begin(t, name, req)
    \/ \E t \in Threads : lock_write(t)
    \/ \E t \in Threads : run_insert(t)
    \/ \E t \in Threads : run_delete(t)
    \/ \E t \in Threads : upsert_delete_old(t)
    \/ \E t \in Threads : upsert_insert_new(t)
    \/ \E t \in Threads : handler_end(t)

QuiesceSpec == ConcInit /\ [][QuiesceNext]_vars

\* C16: no get, list or search has looked at a collection while an upsert of
\* it stood between deleting the old record and inserting the new one, and
\* no reader holds the lock at such a moment; a get of an id that was live
\* when the reader looked is answered with a record.
C16_UpsertAtomic ==
    /\ \A t \in Threads :
          (Done(t) /\ IsSome(tasks[t].handle) /\ tasks[t].req.op \in ReadOps) =>
              /\ ~tasks[t].torn
              /\ (tasks[t].req.op = "get"
                    /\ tasks[t].req.id \in DOMAIN tasks[t].prefix.id_map) =>
                     IsSome(tasks[t].result.val)
    /\ \A w \in Threads :
          tasks[w].pc = "mid" => arena[target(w)].readers = {}

\* C16 witness: an upsert of a live id stands between its two halves (the id
\* is absent from the collection) while a get of that id waits for the lock.
C16_Witness ==
    \E t, w \in Threads :
        /\ tasks[w].pc = "mid"
        /\ tasks[w].req.id \notin DOMAIN arena[target(w)].coll.id_map
        /\ tasks[w].req.id \in DOMAIN arena[target(w)].committed.id_map
        /\ tasks[t].pc = "spawned" /\ tasks[t].req = GetReq(tasks[w].req.id)
        /\ tasks[t].handle = tasks[w].handle

---------------------------------------------------------------------------
(* Batch upsert: POST /collections/{name}/vectors/batch *)

\* one element of BatchInsertRequest.vectors, with the layer its node draws
Item(id, v, md, L) == [id |-> id, v |-> v, md |-> md, L |-> L]

\* a batch that goes on with the next item after a failed one
RECURSIVE upsert_batch_past_errors(_, _)
upsert_batch_past_errors(c, items) ==
    IF items = <<>> THEN {[coll |-> c, res |-> Ok(<<>>)]}
    ELSE LET it == Head(items)
         IN  UNION {LET r == upsert(c, it.id, it.v, it.md, it.L, promoted)
                        rest == upsert_batch_past_errors(r.coll, Tail(items))
                    IN  IF r.res.ok THEN rest
                        ELSE {[coll |-> o.coll, res |-> r.res] : o \in rest}
                    : promoted \in delete_promotions(c, it.id)}

\* for item in items { collection.upsert(item.id, &item.vector, item.metadata)?; }
\* the outcomes of the batch, one per choice of promoted entry points
RECURSIVE upsert_batch(_, _)
upsert_batch(c, items) ==
    IF items = <<>> THEN {[coll |-> c, res |-> Ok(<<>>)]}
    ELSE LET it == Head(items)
         IN  UNION {LET r == upsert(c, it.id, it.v, it.md, it.L, promoted)
                    IN  IF r.res.ok THEN upsert_batch(r.coll, Tail(items))
                        ELSE {[coll |-> r.coll, res |-> r.res]}
                    : promoted \in delete_promotions(c, it.id)}

\* Ok(_) => Ok(Json(count)), Err(e) => Err((BAD_REQUEST, ..))
batch_response(result, count) ==
    IF result.ok THEN Response(OK, count)
    ELSE ErrorResponse(BAD_REQUEST, result.err)

batch_insert_vector(name, items) ==
    /\ UNCHANGED conc
    /\ LET h == get_collection(db, name)
           req == [name |-> name, vectors |-> items]
       IN  IF ~h.ok
           THEN /\ last' = Exchange("batch", req, collection_not_found(h.err))
                /\ UNCHANGED db
           ELSE \E out \in upsert_batch(h.val, items) :
                    /\ db' = [db EXCEPT ![name] = out.coll]
                    /\ last' = Exchange("batch", req, batch_response(out.res, Len(items)))

MaxBatch == 3

\* the items of the batches: two ids, vectors of the right and of a wrong
\* length
BatchItems ==
    {Item(id, v, None, L) : id \in Ids, v \in GraphVectors \cup {<<0, 0>>}, L \in Layers}

Batches == UNION {[1..n -> BatchItems] : n \in 0..MaxBatch}

BatchNext ==
    \/ \E name \in Names : create_collection(name)
    \/ \E name \in Names : delete_collection(name)
    \/ \E name \in Names, items \in Batches : batch_insert_vector(name, items)

BatchSpec == Init /\ [][BatchNext]_vars

\* the first item of a batch the collection refuses (upsert fails on a
\* vector of the wrong length only), or Len(items) + 1
RECURSIVE FirstBad(_, _, _)
FirstBad(c, items, k) ==
    IF k > Len(items) \/ Len(items[k].v) # c.cfg.dimensions THEN k
    ELSE FirstBad(c, items, k + 1)

\* the positions below k that carry id
Positions(items, k, id) == {j \in 1..(k - 1) : items[j].id = id}

\* C17: from every reachable state, a batch whose first failing item is item
\* k returns that item's error (answered 400), every id carried by an item
\* before k reads back as the last such item wrote it, every other id reads
\* back as before the call - no item after k is applied; a batch without a
\* failing item returns Ok (answered 200 with the number of items) and all
\* of it is applied.
C17_BatchPrefix ==
    \A c \in Collections, items \in Batches :
        \A out \in upsert_batch(c, items) :
            LET k == FirstBad(c, items, 1)
            IN  /\ k > Len(items) =>
                      /\ out.res.ok
                      /\ batch_response(out.res, Len(items)) = Response(OK, Len(items))
                /\ k <= Len(items) =>
                      /\ out.res = Err(DimensionMismatch(c.cfg.dimensions, Len(items[k].v)))
                      /\ batch_response(out.res, Len(items)).status = BAD_REQUEST
                /\ \A id \in Ids :
                      get(out.coll, id) =
                          IF Positions(items, k, id) = {} THEN get(c, id)
                          ELSE LET j == CHOOSE x \in Positions(items, k, id) :
                                           \A y \in Positions(items, k, id) : y <= x
                               IN  Ok(Some(<<items[j].v, items[j].md>>))

\* C17 witness: a batch has just been refused for the dimension of an item
\* and has left a live record in a collection that was empty before it.
C17_Witness ==
    /\ last.op = "batch" /\ last.status = BAD_REQUEST
    /\ \E c \in Collections :
          /\ c.vector_count = 1
          /\ Cardinality(Slots(c)) = 1

---------------------------------------------------------------------------
(* Several collections *)

DbNames == {"c1", "c2"}

\* CreateCollectionRequest.dimensions
DbDimensions == {1, 2}

\* vectors of one and of two coordinates
DbVectors == {<<0>>, <<1>>, <<0, 0>>}

DbNext ==
    \/ \E name \in DbNames, dimensions \in DbDimensions :
           create_collection_of(name, dimensions)
    \/ \E name \in DbNames : delete_collection(name)
    \/ list_collections
    \/ \E name \in DbNames, id \in Ids, v \in DbVectors :
           insert_vector(name, id, v, None, 0)
    \/ \E name \in DbNames, id \in Ids, v \in DbVectors :
           upsert_vector(name, id, v, None, 0)
    \/ \E name \in DbNames, id \in Ids : delete_vector(name, id)

DbSpec == Init /\ [][DbNext]_vars

\* C18: in every reachable state, for every name: if the name exists,
\* create_collection fails with DuplicateCollection (answered 400) and the
\* database - the existing collection and its data included - is unchanged,
\* and delete_collection removes exactly that name from list_collections; if
\* it does not exist, delete_collection fails with CollectionNotFound
\* (answered 404) and changes nothing, and create_collection adds exactly
\* that name to list_collections and leaves the other collections as they
\* were.
C18_CollectionLifecycle ==
    \A name \in DbNames, dimensions \in DbDimensions :
        LET cfg == [DefaultConfig EXCEPT !.dimensions = dimensions]
            created == db_create_collection(db, name, cfg)
            deleted == db_delete_collection(db, name)
        IN  IF name \in db_list_collections(db)
            THEN /\ created = [db |-> db, res |-> Err(DuplicateCollection(name))]
                 /\ create_collection_response(created.res)
                      = Response(BAD_REQUEST, [error |-> <<"Duplicate collection: ", name>>])
                 /\ deleted.res.ok
                 /\ db_list_collections(deleted.db) = db_list_collections(db) \ {name}
                 /\ \A n \in db_list_collections(deleted.db) : deleted.db[n] = db[n]
            ELSE /\ deleted = [db |-> db, res |-> Err(CollectionNotFound(name))]
                 /\ delete_collection_response(deleted.res)
                      = Response(NOT_FOUND, [error |-> <<"Collection not found: ", name>>])
                 /\ created.res.ok
                 /\ db_list_collections(created.db) = db_list_collections(db) \cup {name}
                 /\ \A n \in db_list_collections(db) : created.db[n] = db[n]
                 /\ created.db[name] = EmptyCollection(cfg)

\* C18 witness: a create has just been refused as a duplicate of a
\* collection that holds a vector, while the other name does not exist.
C18_Witness ==
    /\ last.op = "create_collection" /\ last.status = BAD_REQUEST
    /\ \E name \in DbNames :
          /\ last.body = [error |-> <<"Duplicate collection: ", name>>]
          /\ db[name].vector_count > 0
    /\ Cardinality(db_list_collections(db)) = 1

---------------------------------------------------------------------------
(* Collections deleted while requests are in flight *)

\* db.delete_collection(&name): the name leaves the map and the map's
\* reference is dropped
registry_delete(name) ==
    /\ IF name \in DOMAIN registry
       THEN /\ registry' = Drop(registry, name)
            /\ arena' = arc_drop(arena, registry[name])
       ELSE UNCHANGED <<registry, arena>>
    /\ UNCHANGED <<config, db, last, tasks>>

HandleRequests == {InsertReq(1, <<0>>, 0), DeleteReq(1), GetReq(1)}

HandleNext ==
    \/ \E name \in Names : registry_create(name, DefaultConfig)
    \/ \E name \in Names : registry_delete(name)
    \/ \E t \in Threads, name \in Names, req \in HandleRequests : handler_begin(t, name, req)
    \/ \E t \in Threads : lock_write(t)
    \/ \E t \in Threads : run_insert(t)
    \/ \E t \in Threads : run_delete(t)
    \/ \E t \in Threads : lock_read(t)
    \/ \E t \in Threads : run_read(t)
    \/ \E t \in Threads : handler_end(t)

HandleSpec == ConcInit /\ [][HandleNext]_vars

\* the workers that hold a reference to collection o
Holders(o) == {t \in Threads : tasks[t].pc # "idle" /\ tasks[t].handle = Some(o)}

\* the names under which collection o is in the map
NamesOf(o) == {n \in DOMAIN registry : registry[n] = o}

\* C19: in every reachable state, the collection of every request in flight
\* exists and is whole (its lock is held by nobody but workers on it, its
\* state is the one its last write left unless a writer is at work), whether
\* or not its name is still in the map; a collection exists exactly as long
\* as the map or a request refers to it; a request that began after the
\* delete was answered CollectionNotFound, and one that began before it is
\* answered by the collection, never CollectionNotFound.
C19_HandleOutlivesDelete ==
    /\ \A t \in Threads :
          (tasks[t].pc # "idle" /\ IsSome(tasks[t].handle)) =>
              /\ target(t) \in Arcs
              /\ (tasks[t].pc = "done" => tasks[t].result.ok
                                           \/ tasks[t].result.err.kind # "CollectionNotFound")
    /\ \A n \in DOMAIN registry : registry[n] \in Arcs
    /\ \A o \in Arcs :
          /\ arena[o].strong = Cardinality(Holders(o)) + Cardinality(NamesOf(o))
          /\ arena[o].strong > 0
          /\ arena[o].writer = None => arena[o].coll = arena[o].committed
          /\ arena[o].writer # None => Unwrap(arena[o].writer) \in Holders(o)
          /\ arena[o].readers \subseteq Holders(o)
    /\ \A t \in Threads :
          (tasks[t].pc = "done" /\ tasks[t].handle = None) =>
              \E n \in Names : tasks[t].result = Err(CollectionNotFound(n))

\* C19 witness: an insert that obtained its collection before the delete has
\* completed on it after the name left the map, while the other worker's
\* request, begun after the delete, was answered CollectionNotFound.
C19_Witness ==
    \E t, u \in Threads :
        /\ tasks[t].pc = "done" /\ IsSome(tasks[t].handle)
        /\ tasks[t].req.op = "insert" /\ tasks[t].result.ok
        /\ NamesOf(target(t)) = {}
        /\ arena[target(t)].coll.vector_count = 1
        /\ tasks[u].pc = "done" /\ tasks[u].handle = None

\* the collections present before and after a step whose value differs
Changed == {n \in DOMAIN db \cap DOMAIN db' : db'[n] # db[n]}

\* C20: every step of insert, upsert or delete on a collection keeps the set
\* of collections and changes the vectors, metadata, graph and count of at
\* most one of them, and of none when the operation fails (a
\* DimensionMismatch insert, a duplicate id, a missing vector or collection);
\* creating, deleting and listing collections change no collection that
\* exists before and after.
C20_Isolation ==
    [][/\ last'.op \in {"insert", "upsert", "delete"} =>
             /\ DOMAIN db' = DOMAIN db
             /\ Cardinality(Changed) <= 1
             /\ last'.status # OK => Changed = {}
       /\ last'.op \in {"create_collection", "delete_collection", "list_collections"} =>
             Changed = {}]_vars

\* C20 witness: an insert of a one-coordinate vector into a collection of
\* dimension 2 has just been refused while the other collection, of
\* dimension 1, holds a vector.
C20_Witness ==
    /\ last.op = "insert" /\ last.status = BAD_REQUEST
    /\ last.body = [error |-> <<"Dimension mismatch: expected ", 2, ", got ", 1>>]
    /\ \E n, m \in DOMAIN db :
          /\ db[n].cfg.dimensions = 2 /\ db[n].vector_count = 0
          /\ db[m].cfg.dimensions = 1 /\ db[m].vector_count = 1

---------------------------------------------------------------------------
(* The error arms of the handlers.  A handler answers what its core call   *)
(* returned: the core call's outcome, or the failure of the blocking task  *)
(* that ran it, is the input of the handler's match.                       *)

\* the result of spawn_blocking(..).await: the closure's value, or a JoinError
Joined(result) == [joined |-> TRUE, result |-> result]

Panicked == [joined |-> FALSE]

\* .await.map_err(|e| (StatusCode::INTERNAL_SERVER_ERROR, ..))?
join_error_response ==
    Response(INTERNAL_SERVER_ERROR, [error |-> <<"task failed">>])

\* the handlers that answer a core call
Endpoints ==
    {"create_collection", "delete_collection", "get_collection", "insert",
     "upsert", "batch", "get", "delete", "search"}

\* the handlers that run their core call on a blocking worker
Blocking == {"insert", "upsert", "batch", "get", "delete", "search"}

\* the response of each handler to the result of its core call
endpoint_response(ep, result) ==
    CASE ep = "create_collection" -> create_collection_response(result)
      [] ep = "delete_collection" -> delete_collection_response(result)
      [] ep = "get_collection" ->
             IF result.ok THEN Response(OK, <<>>) ELSE collection_not_found(result.err)
      [] ep = "insert" -> insert_response(result)
      [] ep = "upsert" -> upsert_response(result)
      [] ep = "batch" -> batch_response(result, 1)
      [] ep = "get" -> get_response(1, result)
      [] ep = "delete" -> delete_response(result)
      [] ep = "search" -> search_response(result)

\* a handler answers the outcome of its core call
answer(ep, result) ==
    /\ last' = Exchange(ep, <<>>, endpoint_response(ep, result))
    /\ UNCHANGED <<db, conc>>

\* the blocking task of a handler failed
answer_join_error(ep) ==
    /\ last' = Exchange(ep, <<>>, join_error_response)
    /\ UNCHANGED <<db, conc>>

\* one value of every variant of Error
Errors ==
    {DimensionMismatch(1, 2), VectorNotFound(1), DuplicateId(1), EmptyIndex,
     InvalidConfig("dimensions"), Storage("disk"), CollectionNotFound("c"),
     DuplicateCollection("c"), Io("disk")}

\* the success values of the core calls
Successes(ep) ==
    CASE ep = "get" -> {Ok(None), Ok(Some(<<(<<0>>), None>>))}
      [] ep = "delete" -> {Ok(TRUE), Ok(FALSE)}
      [] OTHER -> {Ok(<<>>)}

ErrNext ==
    \/ \E name \in Names : create_collection(name)
    \/ \E name \in Names : delete_collection(name)
    \/ \E ep \in Endpoints : \E result \in Successes(ep) \cup {Err(e) : e \in Errors} :
           answer(ep, result)
    \/ \E ep \in Blocking : answer_join_error(ep)

ErrSpec == Init /\ [][ErrNext]_vars

\* the status the design gives each error kind
StatusOf(kind) ==
    CASE kind \in {"DimensionMismatch", "DuplicateId", "DuplicateCollection",
                   "InvalidConfig"} -> BAD_REQUEST
      [] kind \in {"VectorNotFound", "CollectionNotFound"} -> NOT_FOUND
      [] kind \in {"Storage", "Io"} -> INTERNAL_SERVER_ERROR

\* C21 as stated: a response is a success or carries exactly one error, and
\* on every endpoint the response that carries the message of an error of
\* kind DimensionMismatch, DuplicateId, DuplicateCollection or InvalidConfig
\* has status 400, of kind VectorNotFound or CollectionNotFound 404, of kind
\* Storage or IO, or of a failed task, 500.
C21_Original ==
    last.status # OK =>
        /\ \A e \in Errors \ {EmptyIndex} :
              last.body = [error |-> to_string(e)] => last.status = StatusOf(e.kind)
        /\ last.body = join_error_response.body => last.status = INTERNAL_SERVER_ERROR

---------------------------------------------------------------------------
(* The router: the layers a request passes before its handler.  The body   *)
(* limit wraps the whole router; auth_middleware is the layer of the       *)
(* nested router, so /health and the Swagger pages are outside it.         *)

UNAUTHORIZED == 401

PAYLOAD_TOO_LARGE == 413

\* the headers of a request the layers look at
Headers ==
    [x_api_key : {None, Some("secret"), Some("wrong")},
     content_length : {0, DefaultMaxRequestSize, DefaultMaxRequestSize + 1}]

\* AppConfig::from_env() with and without API_KEY
AppConfigs ==
    {[DefaultAppConfig EXCEPT !.api_key = k] : k \in {None, Some("secret")}}

\* the routes of the application, by handler
PublicRoutes == {"health", "docs"}

\* the routes of the nested router, which carries the auth layer
LayeredRoutes ==
    {"stats", "create_collection", "list_collections", "delete_collection",
     "insert", "list", "batch", "upsert", "get", "delete", "search"}

Routes == PublicRoutes \cup LayeredRoutes

\* RequestBodyLimitLayer: a declared length over the limit is answered before
\* the inner service is called
body_limit(cfg, headers) ==
    IF headers.content_length > cfg.max_request_size_bytes
    THEN Some(Response(PAYLOAD_TOO_LARGE, <<>>))
    ELSE None

\* auth_middleware that asks for a key to be present, whatever its value
auth_middleware_any_key(cfg, headers) ==
    IF IsSome(cfg.api_key) /\ headers.x_api_key = None
    THEN Some(Response(UNAUTHORIZED, [error |-> <<"Invalid or missing API key">>]))
    ELSE None

\* auth_middleware: the early answer, or None when next.run(req) is called
auth_middleware(cfg, headers) ==
    IF IsSome(cfg.api_key) /\ headers.x_api_key # cfg.api_key
    THEN Some(Response(UNAUTHORIZED, [error |-> <<"Invalid or missing API key">>]))
    ELSE None

\* the layers around the handler of a route, outermost first: the answer
\* given without calling the handler, or None
layers(cfg, route, headers) ==
    IF IsSome(body_limit(cfg, headers)) THEN body_limit(cfg, headers)
    ELSE IF route \in LayeredRoutes THEN auth_middleware(cfg, headers)
    ELSE None

\* a request to a route: answered by a layer, or handed to the handler
serve(route, headers, handler) ==
    IF IsSome(layers(config, route, headers))
    THEN /\ last' = Exchange(route, headers, Unwrap(layers(config, route, headers)))
         /\ UNCHANGED <<db, conc>>
    ELSE handler

\* GET /health
health_check ==
    /\ last' = Exchange("health", <<>>, Response(OK, [status |-> "OK"]))
    /\ UNCHANGED <<db, conc>>

\* GET /swagger-ui
swagger_ui ==
    /\ last' = Exchange("docs", <<>>, Response(OK, "openapi"))
    /\ UNCHANGED <<db, conc>>

AuthInit ==
    /\ db = <<>>
    /\ last = Exchange("start", <<>>, Response(OK, <<>>))
    /\ registry = <<>> /\ arena = <<>> /\ tasks = <<>>
    /\ config \in AppConfigs

AuthNext ==
    \E headers \in Headers :
        \/ serve("health", headers, health_check)
        \/ serve("docs", headers, swagger_ui)
        \/ serve("stats", headers, get_stats)
        \/ \E name \in Names : serve("create_collection", headers, create_collection(name))
        \/ serve("list_collections", headers, list_collections)
        \/ \E name \in Names : serve("delete_collection", headers, delete_collection(name))
        \/ \E name \in Names, id \in Ids, v \in GraphVectors :
               serve("insert", headers, insert_vector(name, id, v, None, 0))
        \/ \E name \in Names :
               serve("list", headers, list_vectors(name, [offset |-> None, limit |-> None]))
        \/ \E name \in Names, id \in Ids :
               serve("batch", headers,
                     batch_insert_vector(name, <<Item(id, <<0>>, None, 0)>>))
        \/ \E name \in Names, id \in Ids :
               serve("upsert", headers, upsert_vector(name, id, <<0>>, None, 0))
        \/ \E name \in Names, id \in Ids : serve("get", headers, get_vector(name, id))
        \/ \E name \in Names, id \in Ids : serve("delete", headers, delete_vector(name, id))
        \/ \E name \in Names : serve("search", headers, search_vector(name, <<0>>, MaxK, None))

AuthSpec == AuthInit /\ [][AuthNext]_vars

\* the answer of auth_middleware to a refused request
Unauthorized ==
    Response(UNAUTHORIZED, [error |-> <<"Invalid or missing API key">>])

---------------------------------------------------------------------------
(* Robustness: the operations of the fuzz targets on any reachable index *)

\* the values a call may return: a success, or one of the error kinds
Returned(r) ==
    r.ok \/ r.err.kind \in {e.kind : e \in Errors}

---------------------------------------------------------------------------
(* Failed upserts *)

---------------------------------------------------------------------------
(* The entry point *)

\* C25 as stated: in every state between two operations, a collection with a
\* live node has an entry point, which is a live node, and a collection
\* without a live node has none.
C25_Original ==
    \A c \in Collections :
        IF LiveSlots(c) # {}
        THEN IsSome(c.entry_point) /\ Unwrap(c.entry_point) \in LiveSlots(c)
        ELSE c.entry_point = None

\* the highest layer a live node of the collection occupies
TopLayer(c) == CHOOSE l \in Layers :
                   /\ \E i \in DOMAIN c.nodes : c.nodes[i].top = l
                   /\ \A i \in DOMAIN c.nodes : c.nodes[i].top <= l

\* C26 as stated: in every state between two operations, a collection with a
\* live node has an entry point, and the entry point's top layer is the
\* highest layer any live node occupies.
C26_Original ==
    \A c \in Collections :
        LiveSlots(c) # {} =>
            /\ IsSome(c.entry_point)
            /\ Unwrap(c.entry_point) \in DOMAIN c.nodes
            /\ c.nodes[Unwrap(c.entry_point)].top = TopLayer(c)

---------------------------------------------------------------------------
(* The life of a slot *)

\* the state of slot i of collection c
SlotState(c, i) ==
    IF i \notin Slots(c) THEN "Absent"
    ELSE IF Tombstoned(c, i) THEN "Tombstoned" ELSE "Live"

\* every InternalIndex a collection of the model can hold
AllSlots == 0..NumIds

\* C27: in every state the graph node of a slot exists exactly when its
\* record is live; and over every step, for every slot of a collection: an
\* absent slot stays absent or becomes Live, by a successful insert, upsert
\* or batch; a Live slot stays Live or becomes Tombstoned, by a successful
\* delete, and its record changes only when an upsert deletes it and reuses
\* the slot at once; a Tombstoned slot keeps its record until a successful
\* insert or upsert reuses it (Tombstoned -> Absent -> Live within that
\* operation), and is on the free list until then.
C27_SlotLifecycle ==
    [][\A n \in DOMAIN db \cap DOMAIN db' : \A i \in AllSlots :
           LET before == SlotState(db[n], i)
               after == SlotState(db'[n], i)
               made == last'.op \in {"insert", "upsert", "batch"} /\ last'.status = OK
           IN  /\ DOMAIN db[n].nodes = LiveSlots(db[n])
               /\ DOMAIN db'[n].nodes = LiveSlots(db'[n])
               /\ before = "Absent" =>
                     /\ after \in {"Absent", "Live"}
                     /\ after = "Live" => made
               /\ before = "Live" =>
                     /\ after \in {"Live", "Tombstoned"}
                     /\ after = "Tombstoned" => last'.op = "delete" /\ last'.status = OK
                     /\ (after = "Live" /\ db'[n].records[i] # db[n].records[i]) =>
                           last'.op \in {"upsert", "batch"} /\ last'.status = OK
               /\ before = "Tombstoned" =>
                     /\ after \in {"Tombstoned", "Live"}
                     /\ \E k \in DOMAIN db[n].free : db[n].free[k] = i
                     /\ after = "Tombstoned" => db'[n].records[i] = db[n].records[i]
                     /\ after = "Live" => made]_vars

\* C27 witness: an insert has just reused a tombstoned slot: slot 0 holds
\* id 2 while the other slot is still tombstoned, so both slots were on the
\* free list when the insert took slot 0.
C27_Witness ==
    /\ last.op = "insert" /\ last.status = OK
    /\ \E c \in Collections :
          /\ Cardinality(Slots(c)) = 2
          /\ \E i \in Slots(c) : Tombstoned(c, i)
          /\ \E i \in LiveSlots(c) : c.records[i].id = 2 /\ i = 0

---------------------------------------------------------------------------
(* Slot reuse *)

\* C28 as stated: in every state between two operations, every slot on the
\* free list - what the next insert may take - is referenced by no adjacency
\* list at any layer, has no node of its own and is not the entry point, so
\* the edges of the node that reuses it are those its insert creates.
C28_Original ==
    \A c \in Collections :
        \A k \in DOMAIN c.free :
            /\ \A j \in DOMAIN c.nodes, l \in Layers : c.free[k] \notin neighbors(c, j, l)
            /\ c.free[k] \notin DOMAIN c.nodes
            /\ c.entry_point # Some(c.free[k])

---------------------------------------------------------------------------
(* Id map and store *)

\* the slots the id map points at
MappedSlots(c) == {c.id_map[id] : id \in DOMAIN c.id_map}

\* C29: after every completed operation the id map and the store agree: an
\* id maps to one slot, which exists, is not tombstoned and stores that id;
\* distinct ids map to distinct slots; no two non-tombstoned slots store the
\* same id; and no slot on the free list is in the range of the id map.
C29_IdMapAgreesWithStore ==
    \A c \in Collections :
        /\ \A id \in DOMAIN c.id_map :
              /\ c.id_map[id] \in Slots(c)
              /\ ~Tombstoned(c, c.id_map[id])
              /\ c.records[c.id_map[id]].id = id
        /\ \A a, b \in DOMAIN c.id_map : a # b => c.id_map[a] # c.id_map[b]
        /\ \A i, j \in LiveSlots(c) : c.records[i].id = c.records[j].id => i = j
        /\ \A k \in DOMAIN c.free : c.free[k] \notin MappedSlots(c)

\* C29 witness: after an insert, an id is mapped to a live slot while a
\* second slot, tombstoned and on the free list, still carries that very id:
\* the id was deleted and has been inserted again in another slot.
C29_Witness ==
    /\ last.op = "insert" /\ last.status = OK
    /\ \E c \in Collections :
          \E id \in DOMAIN c.id_map, k \in DOMAIN c.free :
              /\ Tombstoned(c, c.free[k])
              /\ c.records[c.free[k]].id = id
              /\ c.id_map[id] # c.free[k]

---------------------------------------------------------------------------
(* Graph connectivity *)

\* the live nodes reached from the nodes of `seen` along layer-0 edges
RECURSIVE Reach0(_, _)
Reach0(c, seen) ==
    LET next == UNION {neighbors(c, i, 0) \cap DOMAIN c.nodes : i \in seen}
    IN  IF next \subseteq seen THEN seen ELSE Reach0(c, seen \cup next)

\* the live nodes reachable from the entry point at layer 0 (none when the
\* index has no entry point)
Reachable(c) ==
    IF c.entry_point = None THEN {} ELSE Reach0(c, {Unwrap(c.entry_point)})

\* C30 as stated: after any sequence of inserts and deletes every live node
\* is reachable from the entry point by following layer-0 edges through live
\* nodes.
C30_Original ==
    \A c \in Collections : DOMAIN c.nodes \subseteq Reachable(c)

---------------------------------------------------------------------------
(* Filter evaluation *)

\* the largest number a filter or a metadata record mentions
MaxScore == 1

\* the metadata paths and the numbers of filters and records
Paths == {"type", "score"}

Scores == 0..MaxScore

\* the operand of an Eq leaf, and the lists of an In leaf
FilterValues == {String("doc"), Number(MaxScore)}

FilterLists == {<<>>, <<String("doc"), Number(MaxScore)>>}

\* {gt?, gte?, lt?, lte?}: no bound, one bound, or a pair of bounds
NoBounds == [gt |-> None, gte |-> None, lt |-> None, lte |-> None]

RangeBounds ==
    {NoBounds}
      \cup {[NoBounds EXCEPT !.gte = Some(n)] : n \in Scores}
      \cup {[NoBounds EXCEPT !.lt = Some(n)] : n \in Scores}
      \cup {[NoBounds EXCEPT !.gt = Some(0), !.lte = Some(MaxScore)]}

Leaves ==
    {Eq(p, v) : p \in Paths, v \in FilterValues}
      \cup {In(p, vs) : p \in Paths, vs \in FilterLists}
      \cup {Range(p, b) : p \in Paths, b \in RangeBounds}
      \cup {Exists(p) : p \in Paths}

\* filter trees up to three compounds deep
FilterTrees ==
    Leaves
      \cup {Not(a) : a \in Leaves}
      \cup {And(<<>>), Or(<<>>)}
      \cup {And(<<a, b>>) : a, b \in Leaves}
      \cup {Or(<<a, b>>) : a, b \in Leaves}
      \cup {Not(Or(<<a, And(<<b, Not(a)>>)>>)) : a, b \in Leaves}

\* metadata records: none, a string, a string and a number, a string where
\* a number is expected, a number where a string is expected
FilterMetadatas ==
    {None, Some([type |-> String("doc")]),
     Some([score |-> String("high")]), Some([type |-> Number(MaxScore)])}
      \cup {Some([type |-> String("doc"), score |-> Number(n)]) : n \in Scores}

\* a filter and a metadata record are at hand
FilterInit ==
    /\ db = <<>>
    /\ \E f \in FilterTrees, md \in FilterMetadatas :
          last = [op |-> "filter", status |-> OK,
                  body |-> [filter |-> f, metadata |-> md]]
    /\ registry = <<>> /\ arena = <<>> /\ tasks = <<>>
    /\ config = DefaultAppConfig

\* the filter is evaluated against the record
evaluate ==
    /\ last.op = "filter"
    /\ last' = [op |-> "matches", status |-> OK,
                body |-> [filter |-> last.body.filter,
                          metadata |-> last.body.metadata,
                          result |-> matches(last.body.filter, last.body.metadata)]]
    /\ UNCHANGED <<db, conc>>

FilterNext == evaluate

FilterSpec == FilterInit /\ [][FilterNext]_vars

\* the leaf operators
LeafOps == {"Eq", "In", "Range", "Exists"}

\* the path of a leaf is missing from the record
Missing(f, md) == md = None \/ f.path \notin DOMAIN Unwrap(md)

\* the value under the leaf's path does not fit the leaf: Range on a value
\* that is not a number, Eq on a value of another type than its operand, In
\* on a value of another type than every element of its list
Mismatch(f, md) ==
    LET v == Unwrap(md)[f.path]
    IN  /\ ~Missing(f, md)
        /\ CASE f.op = "Range" -> ~IsNumber(v)
             [] f.op = "Eq" -> IsNumber(v) # IsNumber(f.value)
             [] f.op = "In" -> \A i \in DOMAIN f.values : IsNumber(v) # IsNumber(f.values[i])
             [] OTHER -> FALSE

===========================================================================
